---- MODULE Spec2Model ----
(***************************************************************************)
(* Quiz platform data-access layer: the request-scoped transaction wrapper *)
(* (app.py get_db_conn), the resource handlers (app.py) and the entity     *)
(* repositories (db.py), over a relational store with READ COMMITTED       *)
(* transactions and row locks.                                             *)
(***************************************************************************)
EXTENDS Integers, Sequences, FiniteSets, TLC

VARIABLES
    db,        \* committed rows: table -> (primary key -> row)
    seq,       \* next value of each table's serial primary key
    policy,    \* what the schema does to the children of a deleted row
    pc,        \* request -> position in get_db_conn / the handler
    call,      \* request -> the endpoint called and its validated payload
    tx,        \* request -> uncommitted writes of its connection
    locks,     \* request -> row and key locks its open transaction holds
    open,      \* request -> its connection is open
    err,       \* request -> the exception currently propagating ("none")
    herr,      \* request -> the exception the handler raised ("none")
    ret,       \* request -> what the repository call returned
    log,       \* request -> the calls made on its connection, in order
    seen,      \* request -> the committed rows its statement ran against
    wrote,     \* request -> the writes its statement made
    applied    \* request -> the writes of it that a commit made durable

vars == <<db, seq, policy, pc, call, tx, locks, open, err, herr, ret, log, seen,
          wrote, applied>>

\* Number of requests a behaviour serves (bound of the model).
NumRequests == 2

Requests == 1..NumRequests

Tables == {"users", "role", "permission", "quiz", "quiz_question",
           "quiz_answer", "game_session", "session_participant",
           "participant_answer"}

\* Python None / SQL NULL, and a present value.
None == <<>>
Some(v) == <<v>>

\* The value NOW() yields for rows created while the model runs.
Now == 9

-----------------------------------------------------------------------------
(* Rows *)

UserRow(id, username, email, password_hash, language, is_verified, is_active, created_at, current_subscription_id) ==
    [user_id |-> id, username |-> username, email |-> email,
     password_hash |-> password_hash, language |-> language,
     is_verified |-> is_verified, is_active |-> is_active,
     created_at |-> created_at,
     current_subscription_id |-> current_subscription_id]

\* The columns every users statement selects or returns (no password_hash).
UserProjection(row) ==
    [user_id |-> row.user_id, username |-> row.username, email |-> row.email,
     language |-> row.language, is_verified |-> row.is_verified,
     is_active |-> row.is_active, created_at |-> row.created_at,
     current_subscription_id |-> row.current_subscription_id]

RoleRow(id, name, description) ==
    [role_id |-> id, name |-> name, description |-> description]

PermissionRow(id, name, description) ==
    [permission_id |-> id, name |-> name, description |-> description]

QuizRow(id, name, creation_method_id, creator_id, media_id) ==
    [quiz_id |-> id, name |-> name, creation_method_id |-> creation_method_id,
     creator_id |-> creator_id, media_id |-> media_id]

QuestionRow(id, quiz_id, question_text, question_type, time_limit, points, sort_order, media_id) ==
    [question_id |-> id, quiz_id |-> quiz_id, question_text |-> question_text,
     question_type |-> question_type, time_limit |-> time_limit,
     points |-> points, sort_order |-> sort_order, media_id |-> media_id]

AnswerRow(id, question_id, answer_text, is_correct, sort_order, media_id) ==
    [answer_id |-> id, question_id |-> question_id,
     answer_text |-> answer_text, is_correct |-> is_correct,
     sort_order |-> sort_order, media_id |-> media_id]

SessionRow(id, quiz_id, host_id, access_code, started_at, ended_at, current_question_index) ==
    [session_id |-> id, quiz_id |-> quiz_id, host_id |-> host_id,
     access_code |-> access_code, started_at |-> started_at,
     ended_at |-> ended_at, current_question_index |-> current_question_index]

ParticipantRow(id, session_id, user_id, nickname, joined_at, score) ==
    [participant_id |-> id, session_id |-> session_id, user_id |-> user_id,
     nickname |-> nickname, joined_at |-> joined_at, score |-> score]

ParticipantAnswerRow(id, participant_id, question_id, chosen_answer_id, is_correct, points_awarded, answered_at) ==
    [id |-> id, participant_id |-> participant_id,
     question_id |-> question_id, chosen_answer_id |-> chosen_answer_id,
     is_correct |-> is_correct, points_awarded |-> points_awarded,
     answered_at |-> answered_at]

-----------------------------------------------------------------------------
(* Uncommitted writes and locks of one connection *)

NoRows == [i \in {} |-> None]

NoTx == [puts |-> [t \in Tables |-> NoRows], dels |-> [t \in Tables |-> {}]]

Put(t, id, row) ==
    [puts |-> [x \in Tables |-> IF x = t THEN (id :> row) ELSE NoRows],
     dels |-> [x \in Tables |-> {}]]

Del(t, ids) ==
    [puts |-> [x \in Tables |-> NoRows],
     dels |-> [x \in Tables |-> IF x = t THEN ids ELSE {}]]

Wrote(w) == \E t \in Tables : DOMAIN w.puts[t] # {} \/ w.dels[t] # {}

\* The committed state after the writes w are committed.
Apply(d, w) ==
    [t \in Tables |->
        [i \in (DOMAIN d[t] \ w.dels[t]) \cup DOMAIN w.puts[t] |->
            IF i \in DOMAIN w.puts[t] THEN w.puts[t][i] ELSE d[t][i]]]

\* Lock modes: "S" key share (a referenced parent), "U" row update,
\* "X" row delete or a unique key being inserted or changed.
Pk(t, id) == <<t, "pk", id>>
Key(t, col, v) == <<t, col, v>>

Conflict(m1, m2) == ~(m1 = "S" /\ m2 \in {"S", "U"})
                    /\ ~(m2 = "S" /\ m1 \in {"S", "U"})

\* A statement that needs the locks `need` waits while another open
\* transaction holds a conflicting lock on one of the same keys.
Blocked(r, need) ==
    \E o \in Requests \ {r} : \E a \in need : \E b \in locks[o] :
        a[2] = b[2] /\ Conflict(a[1], b[1])

-----------------------------------------------------------------------------
(* Repository calls (db.py).  Each yields                                  *)
(*   raises : the exception raised ("none" when it returns),               *)
(*   issued : whether a statement reached storage,                         *)
(*   need   : the locks the statement takes,                               *)
(*   w      : its uncommitted writes,                                      *)
(*   ret    : the value returned (None, a row, or a row count),            *)
(*   used   : the tables whose serial was advanced.                        *)

Outcome(raises, issued, need, w, r, used) ==
    [raises |-> raises, issued |-> issued, need |-> need, w |-> w,
     ret |-> r, used |-> used]

\* The schema (its DDL is not part of db.py): unique columns, and foreign
\* keys as <<child table, column, parent table, column is nullable>>.
UniqueCols(t) ==
    CASE t = "users" -> {"username", "email"}
      [] t = "role" -> {"name"}
      [] t = "permission" -> {"name"}
      [] OTHER -> {}

ForeignKeys ==
    {<<"quiz", "creator_id", "users", TRUE>>,
     <<"quiz_question", "quiz_id", "quiz", FALSE>>,
     <<"quiz_answer", "question_id", "quiz_question", FALSE>>,
     <<"game_session", "quiz_id", "quiz", FALSE>>,
     <<"game_session", "host_id", "users", FALSE>>,
     <<"session_participant", "session_id", "game_session", FALSE>>,
     <<"session_participant", "user_id", "users", TRUE>>,
     <<"participant_answer", "participant_id", "session_participant", FALSE>>,
     <<"participant_answer", "question_id", "quiz_question", FALSE>>,
     <<"participant_answer", "chosen_answer_id", "quiz_answer", TRUE>>}

\* The column defaults of table users.
DefaultIsVerified == FALSE
DefaultIsActive == TRUE

\* The rows <<table, id>> of d whose foreign key points at row id of t.
Referencing(d, t, id) ==
    UNION {{<<fk[1], i>> : i \in {j \in DOMAIN d[fk[1]] :
                                    d[fk[1]][j][fk[2]] =
                                        (IF fk[4] THEN Some(id) ELSE id)}}
           : fk \in {k \in ForeignKeys : k[3] = t}}

\* The rows a cascading delete of the rows in S removes.
RECURSIVE Cascade(_, _)
Cascade(d, S) ==
    LET more == UNION {Referencing(d, p[1], p[2]) : p \in S}
    IN  IF more \subseteq S THEN S ELSE Cascade(d, S \cup more)

\* The parents <<table, id>> the foreign keys of `row` (a row of t) name.
Parents(t, row) ==
    {<<fk[3], IF fk[4] THEN row[fk[2]][1] ELSE row[fk[2]]>> :
        fk \in {k \in ForeignKeys : k[1] = t /\ (k[4] => row[k[2]] # None)}}

RowLocks(d, mode, S) ==
    {<<mode, Pk(p[1], p[2])>> : p \in S}
    \cup UNION {{<<"X", Key(p[1], col, d[p[1]][p[2]][col])>> :
                    col \in UniqueCols(p[1])} : p \in S}

\* INSERT INTO t ... RETURNING: the row gets the next serial; a duplicate of
\* a unique column or a missing parent raises IntegrityError.
InsertRow(d, s, t, row, returning) ==
    LET bad == \/ \E i \in DOMAIN d[t] : \E col \in UniqueCols(t) :
                     d[t][i][col] = row[col]
               \/ \E p \in Parents(t, row) : p[2] \notin DOMAIN d[p[1]]
        need == {<<"X", Pk(t, s[t])>>}
                \cup {<<"X", Key(t, col, row[col])>> : col \in UniqueCols(t)}
                \cup {<<"S", Pk(p[1], p[2])>> : p \in Parents(t, row)}
    IN  IF bad
        THEN Outcome("IntegrityError", TRUE, need, NoTx, None, {t})
        ELSE Outcome("none", TRUE, need, Put(t, s[t], row), Some(returning),
                     {t})

\* UPDATE t SET ... WHERE pk = id RETURNING: one row, or none.  A unique
\* column changed to a value another row holds, or a foreign key changed to
\* a missing parent, raises IntegrityError.
UpdateRow(d, t, id, row, returning) ==
    IF id \notin DOMAIN d[t]
    THEN Outcome("none", TRUE, {<<"U", Pk(t, id)>>}, NoTx, None, {})
    ELSE LET changed == {col \in UniqueCols(t) : row[col] # d[t][id][col]}
             moved == Parents(t, row) \ Parents(t, d[t][id])
             bad == \/ \E i \in DOMAIN d[t] \ {id} : \E col \in changed :
                          d[t][i][col] = row[col]
                    \/ \E p \in moved : p[2] \notin DOMAIN d[p[1]]
             need == {<<"U", Pk(t, id)>>}
                     \cup {<<"X", Key(t, col, row[col])>> : col \in changed}
                     \cup {<<"S", Pk(p[1], p[2])>> : p \in moved}
         IN  IF bad
             THEN Outcome("IntegrityError", TRUE, need, NoTx, None, {})
             ELSE Outcome("none", TRUE, need, Put(t, id, row),
                          Some(returning), {})

\* DELETE FROM t WHERE pk = id; cur.rowcount.  A row that other rows
\* reference is deleted with them (cascade) or the delete is refused.
DeleteRow(d, pol, t, id) ==
    IF id \notin DOMAIN d[t]
    THEN Outcome("none", TRUE, {<<"X", Pk(t, id)>>}, NoTx, 0, {})
    ELSE IF Referencing(d, t, id) # {} /\ pol = "restrict"
    THEN Outcome("IntegrityError", TRUE, {<<"X", Pk(t, id)>>}, NoTx, 0, {})
    ELSE LET gone == Cascade(d, {<<t, id>>})
         IN  Outcome("none", TRUE, RowLocks(d, "X", gone),
                     [puts |-> [x \in Tables |-> NoRows],
                      dels |-> [x \in Tables |->
                                  {p[2] : p \in {q \in gone : q[1] = x}}]],
                     1, {})

\* Mutant of users_get: the read marks the user it finds as verified.
users_get_verifying(d, user_id) ==
    IF user_id \in DOMAIN d.users
    THEN LET row == [d.users[user_id] EXCEPT !.is_verified = TRUE]
         IN  Outcome("none", TRUE, {<<"X", Pk("users", user_id)>>},
                     Put("users", user_id, row), Some(UserProjection(row)),
                     {})
    ELSE Outcome("none", TRUE, {}, NoTx, None, {})

users_get(d, user_id) ==
    Outcome("none", TRUE, {}, NoTx,
            IF user_id \in DOMAIN d.users
            THEN Some(UserProjection(d.users[user_id])) ELSE None, {})

users_create(d, s, username, email, password_hash, language) ==
    LET row == UserRow(s.users, username, email, password_hash, language,
                       DefaultIsVerified, DefaultIsActive, Now, None)
    IN  InsertRow(d, s, "users", row, UserProjection(row))

\* `x is not None`
Supplied(x) == x # None

\* The SET list and the parameters users_patch builds: the supplied fields,
\* in order.
\* Mutant of UsersPatchFields: a flag counts as supplied when it is true.
UsersPatchFieldsIfTruthy(is_active, is_verified, language) ==
    (IF is_active = Some(TRUE) THEN <<"is_active">> ELSE <<>>)
    \o (IF is_verified = Some(TRUE) THEN <<"is_verified">> ELSE <<>>)
    \o (IF language # None THEN <<"language">> ELSE <<>>)

UsersPatchFields(is_active, is_verified, language) ==
    (IF Supplied(is_active) THEN <<"is_active">> ELSE <<>>)
    \o (IF Supplied(is_verified) THEN <<"is_verified">> ELSE <<>>)
    \o (IF Supplied(language) THEN <<"language">> ELSE <<>>)

UsersPatchVals(is_active, is_verified, language) ==
    (IF Supplied(is_active) THEN is_active ELSE <<>>)
    \o (IF Supplied(is_verified) THEN is_verified ELSE <<>>)
    \o (IF Supplied(language) THEN language ELSE <<>>)

\* UPDATE ... SET fields[1]=vals[1], ... applied to one row.
RECURSIVE Assign(_, _, _)
Assign(row, fields, vals) ==
    IF fields = <<>> THEN row
    ELSE Assign([row EXCEPT ![Head(fields)] = Head(vals)],
                Tail(fields), Tail(vals))

\* Mutant of users_patch: a full update, which writes the column default to
\* every field the request leaves out.
users_patch_overwriting(d, user_id, is_active, is_verified, language) ==
    IF ~(Supplied(is_active) \/ Supplied(is_verified) \/ Supplied(language))
    THEN Outcome("ValueError", FALSE, {}, NoTx, None, {})
    ELSE LET row ==
               IF user_id \in DOMAIN d.users
               THEN [d.users[user_id] EXCEPT
                       !.is_active = IF Supplied(is_active)
                                     THEN is_active[1] ELSE DefaultIsActive,
                       !.is_verified = IF Supplied(is_verified)
                                       THEN is_verified[1]
                                       ELSE DefaultIsVerified,
                       !.language = IF Supplied(language)
                                    THEN language[1] ELSE "sv"]
               ELSE None
         IN  UpdateRow(d, "users", user_id, row,
                       IF row = None THEN None ELSE UserProjection(row))

users_patch(d, user_id, is_active, is_verified, language) ==
    LET fields == UsersPatchFields(is_active, is_verified, language)
        vals == UsersPatchVals(is_active, is_verified, language)
    IN  IF fields = <<>>
        THEN Outcome("ValueError", FALSE, {}, NoTx, None, {})
        ELSE LET row == IF user_id \in DOMAIN d.users
                        THEN Assign(d.users[user_id], fields, vals) ELSE None
             IN  UpdateRow(d, "users", user_id, row,
                           IF row = None THEN None ELSE UserProjection(row))

users_delete(d, pol, user_id) == DeleteRow(d, pol, "users", user_id)

roles_create(d, s, name, description) ==
    LET row == RoleRow(s.role, name, description)
    IN  InsertRow(d, s, "role", row, row)

roles_delete(d, pol, role_id) == DeleteRow(d, pol, "role", role_id)

quizzes_create(d, s, name, creation_method_id, creator_id, media_id) ==
    LET row == QuizRow(s.quiz, name, creation_method_id, creator_id, media_id)
    IN  InsertRow(d, s, "quiz", row, row)

\* Mutant of questions_create: the statement leaves points to the column
\* default.
questions_create_default_points(d, s, quiz_id, question_text, question_type, time_limit, points, sort_order, media_id) ==
    LET row == QuestionRow(s.quiz_question, quiz_id, question_text,
                           question_type, time_limit, 1000, sort_order,
                           media_id)
    IN  InsertRow(d, s, "quiz_question", row, row)

questions_create(d, s, quiz_id, question_text, question_type, time_limit, points, sort_order, media_id) ==
    LET row == QuestionRow(s.quiz_question, quiz_id, question_text,
                           question_type, time_limit, points, sort_order,
                           media_id)
    IN  InsertRow(d, s, "quiz_question", row, row)

answers_create(d, s, question_id, answer_text, is_correct, sort_order, media_id) ==
    LET row == AnswerRow(s.quiz_answer, question_id, answer_text, is_correct,
                         sort_order, media_id)
    IN  InsertRow(d, s, "quiz_answer", row, row)

answers_delete(d, pol, answer_id) == DeleteRow(d, pol, "quiz_answer", answer_id)

sessions_create(d, s, quiz_id, host_id, access_code) ==
    LET row == SessionRow(s.game_session, quiz_id, host_id, access_code, Now,
                          None, Some(0))
    IN  InsertRow(d, s, "game_session", row, row)

SessionsPatchFields(current_question_index, ended_at) ==
    (IF Supplied(current_question_index)
     THEN <<"current_question_index">> ELSE <<>>)
    \o (IF Supplied(ended_at) THEN <<"ended_at">> ELSE <<>>)

\* The columns are nullable: the value stored for a parameter v is Some(v).
SessionsPatchVals(current_question_index, ended_at) ==
    (IF Supplied(current_question_index)
     THEN <<current_question_index>> ELSE <<>>)
    \o (IF Supplied(ended_at) THEN <<ended_at>> ELSE <<>>)

\* Mutant of sessions_patch: the statement sets both columns to the
\* arguments, null or not.
sessions_patch_writing_nulls(d, session_id, current_question_index, ended_at) ==
    LET fields == SessionsPatchFields(current_question_index, ended_at)
    IN  IF fields = <<>>
        THEN Outcome("ValueError", FALSE, {}, NoTx, None, {})
        ELSE LET row == IF session_id \in DOMAIN d.game_session
                        THEN [d.game_session[session_id] EXCEPT
                                !.current_question_index =
                                    current_question_index,
                                !.ended_at = ended_at]
                        ELSE None
             IN  UpdateRow(d, "game_session", session_id, row, row)

sessions_patch(d, session_id, current_question_index, ended_at) ==
    LET fields == SessionsPatchFields(current_question_index, ended_at)
        vals == SessionsPatchVals(current_question_index, ended_at)
    IN  IF fields = <<>>
        THEN Outcome("ValueError", FALSE, {}, NoTx, None, {})
        ELSE LET row == IF session_id \in DOMAIN d.game_session
                        THEN Assign(d.game_session[session_id], fields, vals)
                        ELSE None
             IN  UpdateRow(d, "game_session", session_id, row, row)

\* COALESCE(v, dflt)
Coalesce(v, dflt) == IF v = None THEN dflt ELSE v[1]

\* Mutant of NextQuestionIndex: a null index becomes 0 instead of 1.
NextQuestionIndexNullToZero(v) == IF v = None THEN 0 ELSE v[1] + 1

\* COALESCE(current_question_index, 0) + 1
NextQuestionIndex(v) == Coalesce(v, 0) + 1

sessions_next_question(d, session_id) ==
    LET row == IF session_id \in DOMAIN d.game_session
               THEN [d.game_session[session_id] EXCEPT
                       !.current_question_index =
                           Some(NextQuestionIndex(@))]
               ELSE None
    IN  UpdateRow(d, "game_session", session_id, row, row)

sessions_delete(d, pol, session_id) ==
    DeleteRow(d, pol, "game_session", session_id)

participants_delete(d, pol, participant_id) ==
    DeleteRow(d, pol, "session_participant", participant_id)

\* ORDER BY: S is a set of <<key, row>>, a key a tuple of integers; the
\* rows in increasing order of their keys, compared column by column.
KeyLess(a, b) ==
    \E i \in DOMAIN a : a[i] < b[i] /\ \A j \in 1..(i - 1) : a[j] = b[j]

RECURSIVE OrderBy(_)
OrderBy(S) ==
    IF S = {} THEN <<>>
    ELSE LET m == CHOOSE x \in S : \A y \in S \ {x} : KeyLess(x[1], y[1])
         IN  <<m[2]>> \o OrderBy(S \ {m})

\* cur.fetchall() of a SELECT.
Fetched(rows) == Outcome("none", TRUE, {}, NoTx, rows, {})

\* cur.fetchone() of a SELECT ... WHERE pk = id.
FetchedOne(d, t, id) ==
    Outcome("none", TRUE, {}, NoTx,
            IF id \in DOMAIN d[t] THEN Some(d[t][id]) ELSE None, {})

\* Mutant of SortOrderNullsLast: rows with a null sort_order come first.
SortOrderNullsFirst(sort_order, id) ==
    <<IF sort_order = None THEN 0 ELSE 1, Coalesce(sort_order, 0), id>>

\* ORDER BY sort_order NULLS LAST, id
SortOrderNullsLast(sort_order, id) ==
    <<IF sort_order = None THEN 1 ELSE 0, Coalesce(sort_order, 0), id>>

users_list(d, is_active) ==
    Fetched(OrderBy(
        {<<<<0 - i>>, UserProjection(d.users[i])>> :
            i \in {j \in DOMAIN d.users :
                      Supplied(is_active)
                          => d.users[j].is_active = is_active[1]}}))

users_update(d, user_id, username, email, password_hash, language, is_verified, is_active, current_subscription_id) ==
    LET row == IF user_id \in DOMAIN d.users
               THEN [d.users[user_id] EXCEPT
                       !.username = username, !.email = email,
                       !.password_hash = password_hash,
                       !.language = language, !.is_verified = is_verified,
                       !.is_active = is_active,
                       !.current_subscription_id = current_subscription_id]
               ELSE None
    IN  UpdateRow(d, "users", user_id, row,
                  IF row = None THEN None ELSE UserProjection(row))

roles_list(d) ==
    Fetched(OrderBy({<<<<i>>, d.role[i]>> : i \in DOMAIN d.role}))

roles_get(d, role_id) == FetchedOne(d, "role", role_id)

roles_update(d, role_id, name, description) ==
    LET row == IF role_id \in DOMAIN d.role
               THEN [d.role[role_id] EXCEPT
                       !.name = name, !.description = description]
               ELSE None
    IN  UpdateRow(d, "role", role_id, row, row)

permissions_list(d) ==
    Fetched(OrderBy({<<<<i>>, d.permission[i]>> : i \in DOMAIN d.permission}))

permissions_get(d, permission_id) == FetchedOne(d, "permission", permission_id)

permissions_create(d, s, name, description) ==
    LET row == PermissionRow(s.permission, name, description)
    IN  InsertRow(d, s, "permission", row, row)

quizzes_list(d, creator_id) ==
    Fetched(OrderBy(
        {<<<<0 - i>>, d.quiz[i]>> :
            i \in {j \in DOMAIN d.quiz :
                      Supplied(creator_id)
                          => d.quiz[j].creator_id = creator_id}}))

quizzes_get(d, quiz_id) == FetchedOne(d, "quiz", quiz_id)

questions_list_for_quiz(d, quiz_id) ==
    Fetched(OrderBy(
        {<<SortOrderNullsLast(d.quiz_question[i].sort_order, i),
           d.quiz_question[i]>> :
            i \in {j \in DOMAIN d.quiz_question :
                      d.quiz_question[j].quiz_id = quiz_id}}))

questions_get(d, question_id) == FetchedOne(d, "quiz_question", question_id)

questions_update(d, question_id, quiz_id, question_text, question_type, time_limit, points, sort_order, media_id) ==
    LET row == IF question_id \in DOMAIN d.quiz_question
               THEN QuestionRow(question_id, quiz_id, question_text,
                                question_type, time_limit, points,
                                sort_order, media_id)
               ELSE None
    IN  UpdateRow(d, "quiz_question", question_id, row, row)

answers_list_for_question(d, question_id) ==
    Fetched(OrderBy(
        {<<SortOrderNullsLast(d.quiz_answer[i].sort_order, i),
           d.quiz_answer[i]>> :
            i \in {j \in DOMAIN d.quiz_answer :
                      d.quiz_answer[j].question_id = question_id}}))

answers_get(d, answer_id) == FetchedOne(d, "quiz_answer", answer_id)

answers_update(d, answer_id, question_id, answer_text, is_correct, sort_order, media_id) ==
    LET row == IF answer_id \in DOMAIN d.quiz_answer
               THEN AnswerRow(answer_id, question_id, answer_text,
                              is_correct, sort_order, media_id)
               ELSE None
    IN  UpdateRow(d, "quiz_answer", answer_id, row, row)

sessions_list(d, quiz_id) ==
    Fetched(OrderBy(
        {<<<<0 - i>>, d.game_session[i]>> :
            i \in {j \in DOMAIN d.game_session :
                      Supplied(quiz_id)
                          => d.game_session[j].quiz_id = quiz_id[1]}}))

sessions_get(d, session_id) == FetchedOne(d, "game_session", session_id)

\* fetchone() of SELECT ... WHERE access_code = %s: a row with that code.
sessions_get_by_code(d, access_code) ==
    LET found == {i \in DOMAIN d.game_session :
                    d.game_session[i].access_code = access_code}
    IN  Outcome("none", TRUE, {}, NoTx,
                IF found = {} THEN None
                ELSE Some(d.game_session[CHOOSE i \in found : TRUE]), {})

\* Mutant of participants_join: a participant of that session with that
\* nickname and user is returned as it is, instead of a new one.
participants_join_once(d, s, session_id, user_id, nickname) ==
    LET same == {i \in DOMAIN d.session_participant :
                   /\ d.session_participant[i].session_id = session_id
                   /\ d.session_participant[i].user_id = user_id
                   /\ d.session_participant[i].nickname = nickname}
        row == ParticipantRow(s.session_participant, session_id, user_id,
                              nickname, Now, 0)
    IN  IF same # {}
        THEN Outcome("none", TRUE, {}, NoTx,
                     Some(d.session_participant[CHOOSE i \in same : TRUE]),
                     {})
        ELSE InsertRow(d, s, "session_participant", row, row)

participants_join(d, s, session_id, user_id, nickname) ==
    LET row == ParticipantRow(s.session_participant, session_id, user_id,
                              nickname, Now, 0)
    IN  InsertRow(d, s, "session_participant", row, row)

\* Mutant of participants_update_score: SET score = score + %s.
participants_update_score_adding(d, participant_id, score) ==
    LET row == IF participant_id \in DOMAIN d.session_participant
               THEN [d.session_participant[participant_id] EXCEPT
                       !.score = @ + score]
               ELSE None
    IN  UpdateRow(d, "session_participant", participant_id, row, row)

participants_update_score(d, participant_id, score) ==
    LET row == IF participant_id \in DOMAIN d.session_participant
               THEN [d.session_participant[participant_id] EXCEPT
                       !.score = score]
               ELSE None
    IN  UpdateRow(d, "session_participant", participant_id, row, row)

participant_answers_create(d, s, participant_id, question_id, chosen_answer_id, is_correct, points_awarded) ==
    LET row == ParticipantAnswerRow(s.participant_answer, participant_id,
                                    question_id, chosen_answer_id,
                                    is_correct, points_awarded, Now)
    IN  InsertRow(d, s, "participant_answer", row, row)

-----------------------------------------------------------------------------
(* Resource handlers (app.py): the repository call each endpoint makes and *)
(* the exception it raises on the value returned.  sessions_patch and      *)
(* sessions_next_question have no endpoint: they are called as they are on *)
(* a request's connection.                                                 *)

Repo(c, d, s, pol) ==
    CASE c.kind = "get_user" -> users_get(d, c.user_id)
      [] c.kind = "create_user" ->
            users_create(d, s, c.username, c.email, c.password_hash,
                         c.language)
      [] c.kind = "create_role" -> roles_create(d, s, c.name, c.description)
      [] c.kind = "create_quiz" ->
            quizzes_create(d, s, c.name, c.creation_method_id, c.creator_id,
                           c.media_id)
      [] c.kind = "create_question" ->
            questions_create(d, s, c.quiz_id, c.question_text,
                             c.question_type, c.time_limit, c.points,
                             c.sort_order, c.media_id)
      [] c.kind = "create_answer" ->
            answers_create(d, s, c.question_id, c.answer_text, c.is_correct,
                           c.sort_order, c.media_id)
      [] c.kind = "start_session" ->
            sessions_create(d, s, c.quiz_id, c.host_id, c.access_code)
      [] c.kind = "patch_user" ->
            users_patch(d, c.user_id, c.is_active, c.is_verified, c.language)
      [] c.kind = "sessions_patch" ->
            sessions_patch(d, c.session_id, c.current_question_index,
                           c.ended_at)
      [] c.kind = "sessions_next_question" ->
            sessions_next_question(d, c.session_id)
      [] c.kind = "delete_user" -> users_delete(d, pol, c.user_id)
      [] c.kind = "delete_role" -> roles_delete(d, pol, c.role_id)
      [] c.kind = "delete_session" -> sessions_delete(d, pol, c.session_id)
      [] c.kind = "delete_participant" ->
            participants_delete(d, pol, c.participant_id)
      [] c.kind = "delete_answer" -> answers_delete(d, pol, c.answer_id)
      [] c.kind = "get_users" -> users_list(d, c.active)
      [] c.kind = "get_roles" -> roles_list(d)
      [] c.kind = "get_quizzes" -> quizzes_list(d, c.creator_id)
      [] c.kind = "get_quiz" -> quizzes_get(d, c.quiz_id)
      [] c.kind = "get_questions" -> questions_list_for_quiz(d, c.quiz_id)
      [] c.kind = "get_answers" ->
            answers_list_for_question(d, c.question_id)
      [] c.kind = "get_session_by_code" ->
            sessions_get_by_code(d, c.access_code)
      [] c.kind = "join_session" ->
            participants_join(d, s, c.session_id, c.user_id, c.nickname)
      [] c.kind = "submit_answer" ->
            participant_answers_create(d, s, c.participant_id, c.question_id,
                                       c.chosen_answer_id, c.is_correct,
                                       c.points_awarded)
      [] c.kind = "update_user" ->
            users_update(d, c.user_id, c.username, c.email, c.password_hash,
                         c.language, c.is_verified, c.is_active,
                         c.current_subscription_id)
      [] c.kind = "update_role" ->
            roles_update(d, c.role_id, c.name, c.description)
      [] c.kind = "update_question" ->
            questions_update(d, c.question_id, c.quiz_id, c.question_text,
                             c.question_type, c.time_limit, c.points,
                             c.sort_order, c.media_id)
      [] c.kind = "update_answer" ->
            answers_update(d, c.answer_id, c.question_id, c.answer_text,
                           c.is_correct, c.sort_order, c.media_id)
      [] c.kind = "update_participant_score" ->
            participants_update_score(d, c.participant_id, c.score)
      [] c.kind = "roles_get" -> roles_get(d, c.role_id)
      [] c.kind = "permissions_list" -> permissions_list(d)
      [] c.kind = "permissions_get" -> permissions_get(d, c.permission_id)
      [] c.kind = "permissions_create" ->
            permissions_create(d, s, c.name, c.description)
      [] c.kind = "questions_get" -> questions_get(d, c.question_id)
      [] c.kind = "answers_get" -> answers_get(d, c.answer_id)
      [] c.kind = "sessions_list" -> sessions_list(d, c.quiz_id)
      [] c.kind = "sessions_get" -> sessions_get(d, c.session_id)

CreateKinds == {"create_user", "create_role", "create_quiz",
                "create_question", "create_answer", "start_session"}
DeleteKinds == {"delete_user", "delete_role", "delete_session",
                "delete_participant", "delete_answer"}
\* The endpoints that answer 404 to an absent row, and those that answer
\* 400 to one.
NotFoundKinds == {"get_user", "get_quiz", "get_session_by_code",
                  "update_user", "update_role", "update_question",
                  "update_answer", "update_participant_score", "patch_user"}
BadRequestKinds == CreateKinds \cup {"join_session", "submit_answer"}

\* Mutant of Handler: the PUT endpoints return the absent row as it is.
HandlerReturningAbsent(c, r) ==
    CASE c.kind \in {"get_user", "get_quiz", "get_session_by_code",
                     "patch_user"} ->
            IF r = None THEN "HTTP404" ELSE "none"
      [] c.kind \in BadRequestKinds -> IF r = None THEN "HTTP400" ELSE "none"
      [] c.kind \in DeleteKinds -> IF r = 0 THEN "HTTP404" ELSE "none"
      [] OTHER -> "none"

\* Mutant of Handler: a delete endpoint reports success whatever the count.
HandlerIgnoringCount(c, r) ==
    CASE c.kind \in NotFoundKinds -> IF r = None THEN "HTTP404" ELSE "none"
      [] c.kind \in BadRequestKinds -> IF r = None THEN "HTTP400" ELSE "none"
      [] c.kind \in DeleteKinds -> "none"
      [] OTHER -> "none"

\* `if not x: raise HTTPException(status)` and
\* `if x == 0: raise HTTPException(404)`.
Handler(c, r) ==
    CASE c.kind \in NotFoundKinds -> IF r = None THEN "HTTP404" ELSE "none"
      [] c.kind \in BadRequestKinds -> IF r = None THEN "HTTP400" ELSE "none"
      [] c.kind \in DeleteKinds -> IF r = 0 THEN "HTTP404" ELSE "none"
      [] OTHER -> "none"

\* users_create commits on the connection itself before it returns.
CommitsItself(c) == c.kind = "create_user"

-----------------------------------------------------------------------------
(* Initial database *)

Db0 ==
    [users |-> (1 :> UserRow(1, "ada", "ada@x.com", "h1", "sv", FALSE, TRUE,
                             1, None)
                @@ 2 :> UserRow(2, "bob", "bob@x.com", "h2", "en", TRUE,
                                FALSE, 2, Some(7))),
     role |-> (1 :> RoleRow(1, "admin", None)),
     permission |-> (1 :> PermissionRow(1, "read", None)),
     quiz |-> (1 :> QuizRow(1, "q1", Some(1), Some(1), None)),
     quiz_question |-> (1 :> QuestionRow(1, 1, "2+2?", "multiple_choice", 30,
                                         1000, Some(1), None)),
     quiz_answer |-> (1 :> AnswerRow(1, 1, "4", TRUE, Some(1), None)),
     game_session |-> (1 :> SessionRow(1, 1, 1, "AAA", 1, None, None)),
     session_participant |-> (1 :> ParticipantRow(1, 1, None, "zed", 1, 0)),
     participant_answer |-> NoRows]

\* The serials of a database whose rows were inserted one by one.
SeqOf(d) == [t \in Tables |-> Cardinality(DOMAIN d[t]) + 1]

InitWith(d, policies) ==
    /\ db = d
    /\ seq = SeqOf(d)
    /\ policy \in policies
    /\ pc = [r \in Requests |-> "idle"]
    /\ call = [r \in Requests |-> [kind |-> "none"]]
    /\ tx = [r \in Requests |-> NoTx]
    /\ locks = [r \in Requests |-> {}]
    /\ open = [r \in Requests |-> FALSE]
    /\ err = [r \in Requests |-> "none"]
    /\ herr = [r \in Requests |-> "none"]
    /\ ret = [r \in Requests |-> None]
    /\ log = [r \in Requests |-> <<>>]
    /\ seen = [r \in Requests |-> d]
    /\ wrote = [r \in Requests |-> NoTx]
    /\ applied = [r \in Requests |-> NoTx]

-----------------------------------------------------------------------------
(* get_db_conn (app.py 20-29) around one handler *)

\* One call on a connection: where it is made, what it is, whether it
\* returned (TRUE) or raised (FALSE).
Called(site, op, ok) == <<site, op, ok>>

\* Line 21: a request arrives (requests are numbered in order of arrival)
\* and get_connection() returns its connection, or raises before the try
\* block is entered.
Acquire(r, menu) ==
    /\ pc[r] = "idle"
    /\ \A o \in Requests : o < r => pc[o] # "idle"
    /\ \E c \in menu : call' = [call EXCEPT ![r] = c]
    /\ \E fail \in BOOLEAN :
        /\ pc' = [pc EXCEPT ![r] = IF fail THEN "done" ELSE "handler"]
        /\ open' = [open EXCEPT ![r] = ~fail]
        /\ err' = [err EXCEPT ![r] =
                     IF fail THEN "StorageError:connect" ELSE "none"]
        /\ log' = [log EXCEPT ![r] =
                     IF fail THEN <<>>
                     ELSE <<Called("app.py:21", "connect", TRUE)>>]
    /\ UNCHANGED <<db, seq, policy, tx, locks, herr, ret, seen, wrote, applied>>

\* A request that arrives while no other request is being served.
AcquireAlone(r, menu) ==
    /\ \A o \in Requests \ {r} : pc[o] \in {"idle", "done"}
    /\ Acquire(r, menu)

\* Line 23: the handler runs; its repository call executes its statement.
Exec(r) ==
    LET c == call[r]
        o == Repo(c, db, seq, policy)
    IN  /\ pc[r] = "handler"
        /\ ~Blocked(r, o.need)
        /\ \E fail \in (IF o.issued THEN BOOLEAN ELSE {FALSE}) :
            LET raised == IF fail THEN "StorageError:execute"
                          ELSE IF o.raises # "none" THEN o.raises
                          ELSE IF CommitsItself(c) THEN "none"
                          ELSE Handler(c, o.ret)
                done == ~fail /\ o.raises = "none"
            IN  /\ tx' = [tx EXCEPT ![r] = IF done THEN o.w ELSE NoTx]
                /\ wrote' = [wrote EXCEPT ![r] = IF done THEN o.w ELSE NoTx]
                /\ locks' = [locks EXCEPT ![r] = IF done THEN o.need ELSE {}]
                /\ ret' = [ret EXCEPT ![r] = IF done THEN o.ret ELSE None]
                /\ seq' = IF fail THEN seq
                          ELSE [t \in Tables |->
                                  IF t \in o.used THEN seq[t] + 1 ELSE seq[t]]
                /\ err' = [err EXCEPT ![r] = raised]
                /\ herr' = [herr EXCEPT ![r] = raised]
                /\ log' = [log EXCEPT ![r] =
                             IF o.issued
                             THEN Append(@, Called("db.py", "execute", done))
                             ELSE @]
                /\ pc' = [pc EXCEPT ![r] =
                            IF raised # "none" THEN "except"
                            ELSE IF CommitsItself(c) THEN "repo_commit"
                            ELSE "commit"]
        /\ seen' = [seen EXCEPT ![r] = db]
        /\ UNCHANGED <<db, policy, call, open, applied>>

\* What a successful commit on r's connection does to the store.
Committed(r) ==
    /\ db' = Apply(db, tx[r])
    /\ applied' = [applied EXCEPT ![r] =
                     IF Wrote(tx[r]) THEN tx[r] ELSE @]
    /\ tx' = [tx EXCEPT ![r] = NoTx]
    /\ locks' = [locks EXCEPT ![r] = {}]

\* db.py line 66: connection.commit() inside users_create, then the handler
\* tests the row returned.
RepoCommit(r) ==
    /\ pc[r] = "repo_commit"
    /\ \E fail \in BOOLEAN :
        LET raised == IF fail THEN "StorageError:commit"
                      ELSE Handler(call[r], ret[r])
        IN  /\ IF fail THEN UNCHANGED <<db, applied, tx, locks>>
                       ELSE Committed(r)
            /\ err' = [err EXCEPT ![r] = raised]
            /\ herr' = [herr EXCEPT ![r] = raised]
            /\ log' = [log EXCEPT ![r] =
                         Append(@, Called("db.py:66", "commit", ~fail))]
            /\ pc' = [pc EXCEPT ![r] =
                        IF raised # "none" THEN "except" ELSE "commit"]
    /\ UNCHANGED <<seq, policy, call, open, ret, seen, wrote>>

\* Mutant of Commit: the wrapper returns without committing.
CommitMissing(r) ==
    /\ pc[r] = "commit"
    /\ pc' = [pc EXCEPT ![r] = "finally"]
    /\ UNCHANGED <<db, seq, policy, call, tx, locks, open, err, herr, ret, log, seen,
                   wrote, applied>>

\* Line 24: the handler returned; conn.commit().
Commit(r) ==
    /\ pc[r] = "commit"
    /\ \E fail \in BOOLEAN :
        /\ IF fail THEN UNCHANGED <<db, applied, tx, locks>>
                   ELSE Committed(r)
        /\ err' = [err EXCEPT ![r] =
                     IF fail THEN "StorageError:commit" ELSE "none"]
        /\ log' = [log EXCEPT ![r] =
                     Append(@, Called("app.py:24", "commit", ~fail))]
        /\ pc' = [pc EXCEPT ![r] = IF fail THEN "except" ELSE "finally"]
    /\ UNCHANGED <<seq, policy, call, open, herr, ret, seen, wrote>>

\* Mutant of Rollback: the requests share one connection, so a rollback
\* discards the uncommitted work of all of them.
RollbackShared(r) ==
    /\ pc[r] = "except"
    /\ \E fail \in BOOLEAN :
        /\ tx' = IF fail THEN tx ELSE [o \in Requests |-> NoTx]
        /\ locks' = IF fail THEN locks ELSE [o \in Requests |-> {}]
        /\ err' = [err EXCEPT ![r] =
                     IF fail THEN "StorageError:rollback" ELSE @]
        /\ log' = [log EXCEPT ![r] =
                     Append(@, Called("app.py:26", "rollback", ~fail))]
    /\ pc' = [pc EXCEPT ![r] = "finally"]
    /\ UNCHANGED <<db, seq, policy, call, open, herr, ret, seen, wrote, applied>>

\* Lines 25-27: except Exception: conn.rollback(); raise.  When rollback()
\* raises, its exception propagates in place of the one being handled.
Rollback(r) ==
    /\ pc[r] = "except"
    /\ \E fail \in BOOLEAN :
        /\ tx' = IF fail THEN tx ELSE [tx EXCEPT ![r] = NoTx]
        /\ locks' = IF fail THEN locks ELSE [locks EXCEPT ![r] = {}]
        /\ err' = [err EXCEPT ![r] =
                     IF fail THEN "StorageError:rollback" ELSE @]
        /\ log' = [log EXCEPT ![r] =
                     Append(@, Called("app.py:26", "rollback", ~fail))]
    /\ pc' = [pc EXCEPT ![r] = "finally"]
    /\ UNCHANGED <<db, seq, policy, call, open, herr, ret, seen, wrote, applied>>

\* Mutant of Close: close() follows the commit instead of standing in a
\* finally block, so a request that raised leaves its connection open.
CloseUnlessRaised(r) ==
    /\ pc[r] = "finally"
    /\ open' = [open EXCEPT ![r] = (err[r] # "none")]
    /\ tx' = IF err[r] = "none" THEN [tx EXCEPT ![r] = NoTx] ELSE tx
    /\ locks' = IF err[r] = "none" THEN [locks EXCEPT ![r] = {}] ELSE locks
    /\ log' = [log EXCEPT ![r] =
                 IF err[r] = "none"
                 THEN Append(@, Called("app.py:29", "close", TRUE)) ELSE @]
    /\ pc' = [pc EXCEPT ![r] = "done"]
    /\ UNCHANGED <<db, seq, policy, call, err, herr, ret, seen, wrote, applied>>

\* Lines 28-29: finally: conn.close().  Closing discards what the connection
\* has not committed.
Close(r) ==
    /\ pc[r] = "finally"
    /\ open' = [open EXCEPT ![r] = FALSE]
    /\ tx' = [tx EXCEPT ![r] = NoTx]
    /\ locks' = [locks EXCEPT ![r] = {}]
    /\ log' = [log EXCEPT ![r] = Append(@, Called("app.py:29", "close", TRUE))]
    /\ pc' = [pc EXCEPT ![r] = "done"]
    /\ UNCHANGED <<db, seq, policy, call, err, herr, ret, seen, wrote, applied>>

-----------------------------------------------------------------------------
(* Specification of the transaction wrapper: user endpoints *)

Menu ==
    {[kind |-> "get_user", user_id |-> 3],
     [kind |-> "create_user", username |-> "cy", email |-> "cy@x.com",
      password_hash |-> "h3", language |-> "sv"],
     [kind |-> "patch_user", user_id |-> 1, is_active |-> None,
      is_verified |-> None, language |-> None],
     [kind |-> "delete_user", user_id |-> 2]}

\* No statement of Menu deletes a row that another row references, so the
\* schema's policy for such a delete plays no part here.
Init == InitWith(Db0, {"restrict"})

Next ==
    \E r \in Requests :
        \/ Acquire(r, Menu)
        \/ Exec(r)
        \/ RepoCommit(r)
        \/ Commit(r)
        \/ Rollback(r)
        \/ Close(r)

Spec == Init /\ [][Next]_vars

\* The steps of request r after its arrival.
Step(r) == Exec(r) \/ RepoCommit(r) \/ Commit(r) \/ Rollback(r) \/ Close(r)

-----------------------------------------------------------------------------
(* Specification of partial updates: PATCH /users/{id} and sessions_patch *)

\* Requests are served one after the other.  Every subset of the fields for
\* an existing user, no field and one field for a missing one.
PatchMenu ==
    {[kind |-> "patch_user", user_id |-> 2, is_active |-> a,
      is_verified |-> v, language |-> l] :
        a \in {None, Some(TRUE)}, v \in {None, Some(FALSE)},
        l \in {None, Some("sv")}}
    \cup
    {[kind |-> "patch_user", user_id |-> 3, is_active |-> a,
      is_verified |-> None, language |-> None] : a \in {None, Some(FALSE)}}
    \cup
    {[kind |-> "sessions_patch", session_id |-> 1,
      current_question_index |-> None, ended_at |-> e] :
        e \in {None, Some(5)}}

InitPatch == InitWith(Db0, {"restrict"})

NextPatch ==
    \E r \in Requests :
        \/ AcquireAlone(r, PatchMenu)
        \/ Exec(r)
        \/ Commit(r)
        \/ Rollback(r)
        \/ Close(r)

SpecPatch == InitPatch /\ [][NextPatch]_vars

-----------------------------------------------------------------------------
(* Specification of creation under the schema's constraints *)

CreateMenu ==
    {[kind |-> "create_user", username |-> "ada", email |-> "a2@x.com",
      password_hash |-> "h3", language |-> "sv"],
     [kind |-> "create_user", username |-> "cy", email |-> "bob@x.com",
      password_hash |-> "h3", language |-> "sv"],
     [kind |-> "create_user", username |-> "cy", email |-> "cy@x.com",
      password_hash |-> "h3", language |-> "en"],
     [kind |-> "create_role", name |-> "admin", description |-> None],
     [kind |-> "create_role", name |-> "host", description |-> Some("d")],
     [kind |-> "create_quiz", name |-> "q2", creation_method_id |-> Some(1),
      creator_id |-> Some(3), media_id |-> None],
     [kind |-> "create_quiz", name |-> "q2", creation_method_id |-> Some(1),
      creator_id |-> Some(1), media_id |-> None],
     [kind |-> "create_question", quiz_id |-> 2, question_text |-> "3+3?",
      question_type |-> "multiple_choice", time_limit |-> 30,
      points |-> 1000, sort_order |-> Some(1), media_id |-> None],
     [kind |-> "create_answer", question_id |-> 2, answer_text |-> "6",
      is_correct |-> TRUE, sort_order |-> Some(1), media_id |-> None],
     [kind |-> "create_answer", question_id |-> 1, answer_text |-> "5",
      is_correct |-> FALSE, sort_order |-> Some(2), media_id |-> None]}

InitCreate == InitWith(Db0, {"restrict"})

NextCreate ==
    \E r \in Requests :
        \/ Acquire(r, CreateMenu)
        \/ Exec(r)
        \/ RepoCommit(r)
        \/ Commit(r)
        \/ Rollback(r)
        \/ Close(r)

SpecCreate == InitCreate /\ [][NextCreate]_vars

-----------------------------------------------------------------------------
(* Specification of advancing a session's question index *)

\* Session 1 has a null index, session 2 an index of 2; session 3 is the
\* one sessions_create makes.
DbAdvance ==
    [Db0 EXCEPT !.game_session =
        @ @@ (2 :> SessionRow(2, 1, 1, "BBB", 2, None, Some(2)))]

AdvanceMenu ==
    {[kind |-> "sessions_next_question", session_id |-> i] : i \in {1, 2, 3}}
    \cup {[kind |-> "start_session", quiz_id |-> 1, host_id |-> 1,
           access_code |-> "CCC"]}

InitAdvance == InitWith(DbAdvance, {"restrict"})

NextAdvance ==
    \E r \in Requests :
        \/ Acquire(r, AdvanceMenu)
        \/ Exec(r)
        \/ Commit(r)
        \/ Rollback(r)
        \/ Close(r)

SpecAdvance == InitAdvance /\ [][NextAdvance]_vars

-----------------------------------------------------------------------------
(* Specification of delete by id, under either policy of the schema *)

\* Requests are served one after the other.  User 1 and session 1 are
\* referenced by other rows, user 3 does not exist.
DeleteMenu ==
    {[kind |-> "delete_user", user_id |-> i] : i \in {1, 2, 3}}
    \cup {[kind |-> "delete_role", role_id |-> 1],
          [kind |-> "delete_session", session_id |-> 1],
          [kind |-> "delete_participant", participant_id |-> 1],
          [kind |-> "delete_answer", answer_id |-> 1]}

InitDelete == InitWith(Db0, {"restrict", "cascade"})

NextDelete ==
    \E r \in Requests :
        \/ AcquireAlone(r, DeleteMenu)
        \/ Exec(r)
        \/ Commit(r)
        \/ Rollback(r)
        \/ Close(r)

SpecDelete == InitDelete /\ [][NextDelete]_vars

-----------------------------------------------------------------------------
(* Specification of get, PUT and PATCH addressed to one row *)

\* Requests are served one after the other.  User 3, role 2, quiz 2,
\* question 2, answer 2, participant 2 and access code "ZZZ" do not exist;
\* the PUTs to them carry values that would break a constraint on a row
\* that existed.
ByIdMenu ==
    {[kind |-> "get_user", user_id |-> 1],
     [kind |-> "get_user", user_id |-> 3],
     [kind |-> "get_quiz", quiz_id |-> 2],
     [kind |-> "get_session_by_code", access_code |-> "ZZZ"],
     [kind |-> "update_user", user_id |-> 3, username |-> "ada",
      email |-> "cy@x.com", password_hash |-> "h3", language |-> "en",
      is_verified |-> TRUE, is_active |-> TRUE,
      current_subscription_id |-> None],
     [kind |-> "update_user", user_id |-> 2, username |-> "rob",
      email |-> "bob@x.com", password_hash |-> "h4", language |-> "sv",
      is_verified |-> FALSE, is_active |-> TRUE,
      current_subscription_id |-> None],
     [kind |-> "update_role", role_id |-> 2, name |-> "admin",
      description |-> None],
     [kind |-> "update_question", question_id |-> 2, quiz_id |-> 9,
      question_text |-> "3+3?", question_type |-> "multiple_choice",
      time_limit |-> 30, points |-> 1000, sort_order |-> Some(1),
      media_id |-> None],
     [kind |-> "update_answer", answer_id |-> 2, question_id |-> 1,
      answer_text |-> "5", is_correct |-> FALSE, sort_order |-> Some(2),
      media_id |-> None],
     [kind |-> "update_participant_score", participant_id |-> 2,
      score |-> 5],
     [kind |-> "patch_user", user_id |-> 3, is_active |-> Some(FALSE),
      is_verified |-> None, language |-> None],
     [kind |-> "patch_user", user_id |-> 3, is_active |-> None,
      is_verified |-> None, language |-> None]}

InitById == InitWith(Db0, {"restrict"})

NextById ==
    \E r \in Requests :
        \/ AcquireAlone(r, ByIdMenu)
        \/ Exec(r)
        \/ Commit(r)
        \/ Rollback(r)
        \/ Close(r)

SpecById == InitById /\ [][NextById]_vars

-----------------------------------------------------------------------------
(* Specification of the ordered listings of questions and answers *)

\* The sort orders given to questions 1 and 2 of quiz 1 and, in reverse, to
\* answers 1 and 2 of question 1; question 3 and answer 3 have sort order 1.
SortOrders == [1..2 -> {None, Some(1), Some(2)}]

\* Quiz 1 has questions 1..3, quiz 2 has question 4, quiz 3 does not exist;
\* question 1 has answers 1..3, question 2 has answer 4.
DbOrdered(so) ==
    [Db0 EXCEPT
        !.quiz = @ @@ (2 :> QuizRow(2, "q2", Some(1), None, None)),
        !.quiz_question =
            [i \in 1..4 |->
                QuestionRow(i, IF i = 4 THEN 2 ELSE 1, "2+2?",
                            "multiple_choice", 30, 1000,
                            IF i > 2 THEN Some(1) ELSE so[i], None)],
        !.quiz_answer =
            [i \in 1..4 |->
                AnswerRow(i, IF i = 4 THEN 2 ELSE 1, "4", TRUE,
                          IF i = 4 THEN None
                          ELSE IF i = 3 THEN Some(1) ELSE so[3 - i], None)]]

OrderedMenu ==
    {[kind |-> "get_questions", quiz_id |-> i] : i \in {1, 2, 3}}
    \cup {[kind |-> "get_answers", question_id |-> 1]}

InitOrdered == \E so \in SortOrders : InitWith(DbOrdered(so), {"restrict"})

NextOrdered ==
    \E r \in Requests :
        \/ AcquireAlone(r, OrderedMenu)
        \/ Exec(r)
        \/ Commit(r)
        \/ Rollback(r)
        \/ Close(r)

SpecOrdered == InitOrdered /\ [][NextOrdered]_vars

-----------------------------------------------------------------------------
(* Specification of the listings with an optional filter *)

\* Two rows or more in every listed table: users 1 (active) and 2
\* (inactive), quiz 1 by user 1 and quiz 2 by nobody, sessions 1 and 2 of
\* quiz 1 and session 3 of quiz 2.
DbList ==
    [Db0 EXCEPT
        !.role = @ @@ (2 :> RoleRow(2, "host", Some("d"))),
        !.permission = @ @@ (2 :> PermissionRow(2, "write", None)),
        !.quiz = @ @@ (2 :> QuizRow(2, "q2", Some(1), None, None)),
        !.game_session =
            @ @@ (2 :> SessionRow(2, 1, 1, "BBB", 2, None, Some(2)))
              @@ (3 :> SessionRow(3, 2, 2, "CCC", 3, Some(4), Some(0)))]

ListMenu ==
    {[kind |-> "get_users", active |-> a] :
        a \in {None, Some(TRUE), Some(FALSE)}}
    \cup {[kind |-> "get_roles"], [kind |-> "permissions_list"]}
    \cup {[kind |-> "get_quizzes", creator_id |-> x] :
            x \in {None, Some(1), Some(0)}}
    \cup {[kind |-> "sessions_list", quiz_id |-> x] :
            x \in {None, Some(1), Some(0)}}

InitList == InitWith(DbList, {"restrict"})

NextList ==
    \E r \in Requests :
        \/ AcquireAlone(r, ListMenu)
        \/ Exec(r)
        \/ Commit(r)
        \/ Rollback(r)
        \/ Close(r)

SpecList == InitList /\ [][NextList]_vars

-----------------------------------------------------------------------------
(* Specification of create followed by get *)

\* Requests are served one after the other: one valid payload for each
\* entity, and gets of the user and the quiz they create.
RoundTripMenu ==
    {[kind |-> "create_user", username |-> "cy", email |-> "cy@x.com",
      password_hash |-> "h3", language |-> "en"],
     [kind |-> "create_role", name |-> "host", description |-> Some("d")],
     [kind |-> "permissions_create", name |-> "write",
      description |-> None],
     [kind |-> "create_quiz", name |-> "q2", creation_method_id |-> Some(2),
      creator_id |-> Some(1), media_id |-> None],
     [kind |-> "create_question", quiz_id |-> 1, question_text |-> "3+3?",
      question_type |-> "true_false", time_limit |-> 20, points |-> 500,
      sort_order |-> Some(2), media_id |-> Some(4)],
     [kind |-> "create_answer", question_id |-> 1, answer_text |-> "5",
      is_correct |-> FALSE, sort_order |-> Some(2), media_id |-> None],
     [kind |-> "start_session", quiz_id |-> 1, host_id |-> 2,
      access_code |-> "CCC"],
     [kind |-> "join_session", session_id |-> 1, user_id |-> Some(2),
      nickname |-> "amy"],
     [kind |-> "submit_answer", participant_id |-> 1, question_id |-> 1,
      chosen_answer_id |-> Some(1), is_correct |-> Some(TRUE),
      points_awarded |-> Some(10)],
     [kind |-> "get_user", user_id |-> 3],
     [kind |-> "get_quiz", quiz_id |-> 2]}

InitRoundTrip == InitWith(Db0, {"restrict"})

NextRoundTrip ==
    \E r \in Requests :
        \/ AcquireAlone(r, RoundTripMenu)
        \/ Exec(r)
        \/ RepoCommit(r)
        \/ Commit(r)
        \/ Rollback(r)
        \/ Close(r)

SpecRoundTrip == InitRoundTrip /\ [][NextRoundTrip]_vars

-----------------------------------------------------------------------------
(* Specification of joining a session *)

\* Concurrent requests.  Session 1 has participant 1, "zed", with no user;
\* session 2 does not exist.
JoinMenu ==
    {[kind |-> "join_session", session_id |-> 1, user_id |-> None,
      nickname |-> "zed"],
     [kind |-> "join_session", session_id |-> 1, user_id |-> Some(2),
      nickname |-> "amy"],
     [kind |-> "join_session", session_id |-> 2, user_id |-> None,
      nickname |-> "zed"]}

InitJoin == InitWith(Db0, {"restrict"})

NextJoin ==
    \E r \in Requests :
        \/ Acquire(r, JoinMenu)
        \/ Exec(r)
        \/ Commit(r)
        \/ Rollback(r)
        \/ Close(r)

SpecJoin == InitJoin /\ [][NextJoin]_vars

-----------------------------------------------------------------------------
(* Specification of score updates *)

\* Participant 1 has score 3, participant 2 score 4; participant 3 does
\* not exist.
DbScore ==
    [Db0 EXCEPT !.session_participant =
        (1 :> ParticipantRow(1, 1, None, "zed", 1, 3))
        @@ (2 :> ParticipantRow(2, 1, Some(2), "amy", 2, 4))]

\* Concurrent requests.
ScoreMenu ==
    {[kind |-> "update_participant_score", participant_id |-> 1,
      score |-> 5],
     [kind |-> "update_participant_score", participant_id |-> 1,
      score |-> 7],
     [kind |-> "update_participant_score", participant_id |-> 3,
      score |-> 5]}

InitScore == InitWith(DbScore, {"restrict"})

NextScore ==
    \E r \in Requests :
        \/ Acquire(r, ScoreMenu)
        \/ Exec(r)
        \/ Commit(r)
        \/ Rollback(r)
        \/ Close(r)

SpecScore == InitScore /\ [][NextScore]_vars

-----------------------------------------------------------------------------
(* Specification of patches of nullable columns *)

\* Session 1 has neither an end nor an index, session 2 has both.
DbNullable ==
    [Db0 EXCEPT !.game_session =
        (1 :> SessionRow(1, 1, 1, "AAA", 1, None, None))
        @@ (2 :> SessionRow(2, 1, 1, "BBB", 2, Some(4), Some(2)))]

\* Requests are served one after the other.  For session 1 every
\* combination of an absent and a present index with an absent and a present
\* end; for session 2 one column at a time; one patch of a missing session.
NullableMenu ==
    {[kind |-> "sessions_patch", session_id |-> 1,
      current_question_index |-> x[1], ended_at |-> x[2]] :
        x \in {<<None, None>>, <<Some(3), Some(5)>>, <<None, Some(5)>>,
               <<Some(0), None>>}}
    \cup
    {[kind |-> "sessions_patch", session_id |-> 2,
      current_question_index |-> None, ended_at |-> Some(5)],
     [kind |-> "sessions_patch", session_id |-> 2,
      current_question_index |-> Some(0), ended_at |-> None],
     [kind |-> "sessions_patch", session_id |-> 3,
      current_question_index |-> Some(0), ended_at |-> None]}

InitNullable == InitWith(DbNullable, {"restrict"})

NextNullable ==
    \E r \in Requests :
        \/ AcquireAlone(r, NullableMenu)
        \/ Exec(r)
        \/ Commit(r)
        \/ Rollback(r)
        \/ Close(r)

SpecNullable == InitNullable /\ [][NextNullable]_vars

-----------------------------------------------------------------------------
(* Specification of patches that supply false and 0 *)

\* Requests are served one after the other.  User 1 is active, user 2 is
\* verified, session 2 is at index 2 and session 1 has no index; a patch
\* that supplies nothing stands beside those that supply false or 0.
FalsyMenu ==
    {[kind |-> "patch_user", user_id |-> 1, is_active |-> Some(FALSE),
      is_verified |-> None, language |-> None],
     [kind |-> "patch_user", user_id |-> 2, is_active |-> None,
      is_verified |-> Some(FALSE), language |-> None],
     [kind |-> "patch_user", user_id |-> 2, is_active |-> Some(TRUE),
      is_verified |-> Some(FALSE), language |-> None],
     [kind |-> "patch_user", user_id |-> 1, is_active |-> None,
      is_verified |-> None, language |-> None],
     [kind |-> "sessions_patch", session_id |-> 1,
      current_question_index |-> Some(0), ended_at |-> None],
     [kind |-> "sessions_patch", session_id |-> 2,
      current_question_index |-> Some(0), ended_at |-> None],
     [kind |-> "sessions_patch", session_id |-> 2,
      current_question_index |-> None, ended_at |-> None]}

InitFalsy == InitWith(DbNullable, {"restrict"})

NextFalsy ==
    \E r \in Requests :
        \/ AcquireAlone(r, FalsyMenu)
        \/ Exec(r)
        \/ Commit(r)
        \/ Rollback(r)
        \/ Close(r)

SpecFalsy == InitFalsy /\ [][NextFalsy]_vars

-----------------------------------------------------------------------------
(* Specification of concurrent requests, each on its own connection *)

\* Concurrent requests: two write and commit, one reads a missing user and
\* rolls back.
IsolationMenu ==
    {[kind |-> "patch_user", user_id |-> 1, is_active |-> Some(FALSE),
      is_verified |-> None, language |-> None],
     [kind |-> "create_role", name |-> "editor", description |-> None],
     [kind |-> "get_user", user_id |-> 3]}

InitIsolation == InitWith(Db0, {"restrict"})

NextIsolation ==
    \E r \in Requests :
        \/ Acquire(r, IsolationMenu)
        \/ Exec(r)
        \/ Commit(r)
        \/ Rollback(r)
        \/ Close(r)

SpecIsolation == InitIsolation /\ [][NextIsolation]_vars

-----------------------------------------------------------------------------
(* Specification of the GET endpoints *)

\* Requests are served one after the other.  Every GET endpoint, with a
\* user that exists, a quiz and an access code that do not, and one request
\* that writes.
ReadMenu ==
    {[kind |-> "get_users", active |-> Some(FALSE)],
     [kind |-> "get_user", user_id |-> 1],
     [kind |-> "get_roles"],
     [kind |-> "get_quizzes", creator_id |-> None],
     [kind |-> "get_quiz", quiz_id |-> 2],
     [kind |-> "get_questions", quiz_id |-> 1],
     [kind |-> "get_answers", question_id |-> 1],
     [kind |-> "get_session_by_code", access_code |-> "ZZZ"],
     [kind |-> "create_role", name |-> "editor", description |-> None]}

InitRead == InitWith(Db0, {"restrict"})

NextRead ==
    \E r \in Requests :
        \/ AcquireAlone(r, ReadMenu)
        \/ Exec(r)
        \/ Commit(r)
        \/ Rollback(r)
        \/ Close(r)

SpecRead == InitRead /\ [][NextRead]_vars

-----------------------------------------------------------------------------
(* Properties of the transaction wrapper *)

Connected(r) == log[r] # <<>>

\* How many of r's connection calls are of the operations in ops.
Calls(r, ops) == Cardinality({i \in DOMAIN log[r] : log[r][i][2] \in ops})

CalledAt(r, site, ok) ==
    \E i \in DOMAIN log[r] : log[r][i][1] = site /\ log[r][i][3] = ok

Failed(r) == pc[r] = "done" /\ err[r] # "none"
Succeeded(r) == pc[r] = "done" /\ err[r] = "none"

\* C1: every request that got a connection calls exactly one of commit and
\* rollback on it and then closes it, and every commit or rollback is the
\* wrapper's (app.py 24, 26): no repository call commits or rolls back.
C1_ExactlyOneCommitOrRollback ==
    \A r \in Requests :
        /\ \A i \in DOMAIN log[r] :
              log[r][i][2] \in {"commit", "rollback"}
                  => log[r][i][1] \in {"app.py:24", "app.py:26"}
        /\ (pc[r] = "done" /\ Connected(r))
              => /\ Calls(r, {"commit", "rollback"}) = 1
                 /\ log[r][Len(log[r])][2] = "close"

\* C2: a request that ended in failure made none of its writes durable.
C2_FailedRequestLeavesNoWrite ==
    \A r \in Requests : Failed(r) => applied[r] = NoTx

\* C3: when the handler raised, the wrapper called rollback, did not call
\* commit, and the request ends with the very exception the handler raised.
C3_HandlerErrorPropagates ==
    \A r \in Requests :
        (pc[r] = "done" /\ herr[r] # "none")
            => /\ err[r] = herr[r]
               /\ \E i \in DOMAIN log[r] : log[r][i][1] = "app.py:26"
               /\ \A i \in DOMAIN log[r] : log[r][i][1] # "app.py:24"

\* C4: a connection is open only while its request runs; a running request
\* can always take its next step towards close, or waits for a row lock of
\* a running request that can; a finished request's last call was close,
\* and no call follows a close.
C4_EveryConnectionClosedLast ==
    \A r \in Requests :
        /\ open[r] => pc[r] \notin {"idle", "done"}
        /\ open[r] =>
              \/ ENABLED Step(r)
              \/ \E o \in Requests \ {r} :
                    open[o] /\ pc[o] # "handler" /\ ENABLED Step(o)
        /\ (pc[r] = "done" /\ Connected(r))
              => log[r][Len(log[r])][2] = "close"
        /\ \A i \in DOMAIN log[r] :
              log[r][i][2] = "close" => i = Len(log[r])

\* A request whose rollback raised has finished with its connection closed.
C4_Witness ==
    \E r \in Requests :
        /\ pc[r] = "done" /\ ~open[r]
        /\ CalledAt(r, "app.py:26", FALSE)
        /\ log[r][Len(log[r])] = Called("app.py:29", "close", TRUE)

\* C5: a request reported successful has had the wrapper's commit return,
\* and every write its statement made is durable.
C5_SuccessMeansCommitted ==
    \A r \in Requests :
        Succeeded(r) => /\ CalledAt(r, "app.py:24", TRUE)
                        /\ applied[r] = wrote[r]
                        /\ tx[r] = NoTx

\* A mutating request has been reported successful with its write durable.
C5_Witness ==
    \E r \in Requests :
        Succeeded(r) /\ Wrote(wrote[r]) /\ applied[r] = wrote[r]

-----------------------------------------------------------------------------
(* Properties of partial updates *)

\* r's statement, a users_patch, updated a row.
PatchedUser(r) == call[r].kind = "patch_user" /\ ret[r] # None

\* C6: a users_patch that supplies some of is_active, is_verified and
\* language leaves each supplied field with the supplied value and every
\* other column of that user, and every other row, as it was; once the
\* request has succeeded, that write is durable.
C6_PatchTouchesOnlySuppliedFields ==
    \A r \in Requests :
        PatchedUser(r) =>
            LET c == call[r]
                before == seen[r]
                after == Apply(before, wrote[r])
                old == before.users[c.user_id]
                new == after.users[c.user_id]
            IN  /\ \A f \in {"is_active", "is_verified", "language"} :
                      new[f] = IF c[f] # None THEN c[f][1] ELSE old[f]
                /\ \A f \in {"user_id", "username", "email", "password_hash",
                             "created_at", "current_subscription_id"} :
                      new[f] = old[f]
                /\ \A t \in Tables :
                      /\ DOMAIN after[t] = DOMAIN before[t]
                      /\ \A i \in DOMAIN before[t] :
                            (t # "users" \/ i # c.user_id)
                                => after[t][i] = before[t][i]
                /\ Succeeded(r) => applied[r] = wrote[r]

\* A patch of is_active alone has succeeded: user 2 is active, and is still
\* verified with language "en".
C6_Witness ==
    \E r \in Requests :
        /\ Succeeded(r) /\ PatchedUser(r)
        /\ call[r].is_active = Some(TRUE)
        /\ call[r].is_verified = None /\ call[r].language = None
        /\ db.users[2].is_active /\ db.users[2].is_verified
        /\ db.users[2].language = "en"

ZeroFieldPatch(c) ==
    \/ /\ c.kind = "patch_user"
       /\ c.is_active = None /\ c.is_verified = None /\ c.language = None
    \/ /\ c.kind = "sessions_patch"
       /\ c.current_question_index = None /\ c.ended_at = None

\* C7: a patch that supplies no field fails before any statement reaches
\* storage and writes nothing; PATCH /users/{id} reports it as a bad
\* request (400), sessions_patch signals it with its ValueError.
C7_ZeroFieldPatchIsBadRequest ==
    \A r \in Requests :
        (ZeroFieldPatch(call[r]) /\ Connected(r) /\ pc[r] # "handler")
            => /\ \A i \in DOMAIN log[r] : log[r][i][2] # "execute"
               /\ wrote[r] = NoTx /\ applied[r] = NoTx
               /\ herr[r] = IF call[r].kind = "patch_user"
                            THEN "HTTP400" ELSE "ValueError"

-----------------------------------------------------------------------------
(* Properties of creation *)

\* The statement of r reached storage and was not lost to a storage failure.
Ran(r) ==
    /\ Connected(r) /\ pc[r] # "handler"
    /\ herr[r] # "StorageError:execute"

\* The create payload c breaks a unique or a foreign-key constraint of d.
BreaksConstraint(d, c) ==
    CASE c.kind = "create_user" ->
            \E i \in DOMAIN d.users :
                d.users[i].username = c.username \/ d.users[i].email = c.email
      [] c.kind = "create_role" ->
            \E i \in DOMAIN d.role : d.role[i].name = c.name
      [] c.kind = "create_quiz" ->
            c.creator_id # None /\ c.creator_id[1] \notin DOMAIN d.users
      [] c.kind = "create_question" -> c.quiz_id \notin DOMAIN d.quiz
      [] c.kind = "create_answer" ->
            c.question_id \notin DOMAIN d.quiz_question
      [] OTHER -> FALSE

\* C8: a create that storage refuses for a duplicate or a missing parent is
\* reported by its handler as a bad request (400), and persists no row.
C8_ConstraintViolationIsBadRequest ==
    \A r \in Requests :
        (call[r].kind \in CreateKinds /\ Ran(r)
         /\ BreaksConstraint(seen[r], call[r]))
            => herr[r] = "HTTP400" /\ applied[r] = NoTx

-----------------------------------------------------------------------------
(* Properties of advancing the question index *)

IndexOf(row) == row.current_question_index

\* r's statement, a sessions_next_question, advanced session s.
Advanced(r, s) ==
    /\ call[r].kind = "sessions_next_question"
    /\ call[r].session_id = s /\ ret[r] # None

AdvanceCommitted(r, s) == Advanced(r, s) /\ applied[r] # NoTx

\* C9: each advance returns the index it found (null counting as 0) plus
\* one; a session's committed index is its first index (0 for a session
\* made by sessions_create) plus the number of committed advances, in every
\* interleaving; no two committed advances of a session return the same
\* index.
C9_AdvancesAreNeverLost ==
    /\ \A r \in Requests : \A s \in DOMAIN seen[r].game_session :
          Advanced(r, s) =>
              IndexOf(ret[r][1]) =
                  Some((IF IndexOf(seen[r].game_session[s]) = None THEN 0
                        ELSE IndexOf(seen[r].game_session[s])[1]) + 1)
    /\ \A r \in Requests :
          (call[r].kind = "start_session" /\ ret[r] # None)
              => IndexOf(ret[r][1]) = Some(0)
    /\ \A s \in DOMAIN db.game_session :
          LET n == Cardinality({r \in Requests : AdvanceCommitted(r, s)})
              first == IF s \in DOMAIN DbAdvance.game_session
                       THEN IndexOf(DbAdvance.game_session[s]) ELSE Some(0)
          IN  IndexOf(db.game_session[s]) =
                  IF n = 0 THEN first
                  ELSE Some((IF first = None THEN 0 ELSE first[1]) + n)
    /\ \A r1, r2 \in Requests : \A s \in DOMAIN db.game_session :
          (r1 # r2 /\ AdvanceCommitted(r1, s) /\ AdvanceCommitted(r2, s))
              => IndexOf(ret[r1][1]) # IndexOf(ret[r2][1])

\* Every request has advanced session 1, whose index was null, and all
\* have committed.
C9_Witness ==
    /\ \A r \in Requests : AdvanceCommitted(r, 1) /\ Succeeded(r)
    /\ IndexOf(db.game_session[1]) = Some(NumRequests)

-----------------------------------------------------------------------------
(* Properties of delete by id *)

DeleteTable(c) ==
    CASE c.kind = "delete_user" -> "users"
      [] c.kind = "delete_role" -> "role"
      [] c.kind = "delete_session" -> "game_session"
      [] c.kind = "delete_participant" -> "session_participant"
      [] c.kind = "delete_answer" -> "quiz_answer"

DeleteId(c) ==
    CASE c.kind = "delete_user" -> c.user_id
      [] c.kind = "delete_role" -> c.role_id
      [] c.kind = "delete_session" -> c.session_id
      [] c.kind = "delete_participant" -> c.participant_id
      [] c.kind = "delete_answer" -> c.answer_id

\* The delete of r found no row: count 0, 404, nothing written.
DeleteOfMissing(r) ==
    /\ herr[r] = "HTTP404" /\ ret[r] = 0
    /\ wrote[r] = NoTx /\ applied[r] = NoTx

\* The delete of r removed exactly its row: count 1, no error from the
\* handler, and success once the wrapper's commit has returned.
DeleteOfExisting(r) ==
    /\ herr[r] = "none" /\ ret[r] = 1
    /\ wrote[r] = Del(DeleteTable(call[r]), {DeleteId(call[r])})
    /\ CalledAt(r, "app.py:24", TRUE)
          => (pc[r] = "done" => err[r] = "none") /\ applied[r] = wrote[r]

\* C10 as claimed: a delete of a missing id returns 0 and reports 404
\* leaving the database as it was; a delete of an existing id removes
\* exactly that row, returns 1 and reports success.
C10_DeleteByIdAsClaimed ==
    \A r \in Requests :
        (call[r].kind \in DeleteKinds /\ Ran(r)) =>
            IF DeleteId(call[r]) \in DOMAIN seen[r][DeleteTable(call[r])]
            THEN DeleteOfExisting(r)
            ELSE DeleteOfMissing(r)

\* C10 amended: the same, for an existing id that no other row references.
C10_DeleteById ==
    \A r \in Requests :
        (call[r].kind \in DeleteKinds /\ Ran(r)) =>
            LET t == DeleteTable(call[r])
                id == DeleteId(call[r])
            IN  IF id \notin DOMAIN seen[r][t] THEN DeleteOfMissing(r)
                ELSE Referencing(seen[r], t, id) = {} => DeleteOfExisting(r)

\* Two deletes of user 2: the first removed the row and succeeded, the
\* second found nothing and reported 404.
C10_Witness ==
    \E r1, r2 \in Requests :
        /\ call[r1] = [kind |-> "delete_user", user_id |-> 2]
        /\ call[r2] = call[r1]
        /\ Succeeded(r1) /\ DeleteOfExisting(r1)
        /\ pc[r2] = "done" /\ err[r2] = "HTTP404" /\ DeleteOfMissing(r2)
        /\ 2 \notin DOMAIN db.users

-----------------------------------------------------------------------------
(* Properties of get, PUT and PATCH addressed to one row *)

\* The row a get, PUT or PATCH is addressed to is not in the database its
\* statement ran against.
TargetAbsent(r) ==
    LET c == call[r]
        d == seen[r]
    IN  CASE c.kind \in {"get_user", "update_user", "patch_user"} ->
                c.user_id \notin DOMAIN d.users
          [] c.kind = "get_quiz" -> c.quiz_id \notin DOMAIN d.quiz
          [] c.kind = "get_session_by_code" ->
                \A i \in DOMAIN d.game_session :
                    d.game_session[i].access_code # c.access_code
          [] c.kind = "update_role" -> c.role_id \notin DOMAIN d.role
          [] c.kind = "update_question" ->
                c.question_id \notin DOMAIN d.quiz_question
          [] c.kind = "update_answer" ->
                c.answer_id \notin DOMAIN d.quiz_answer
          [] c.kind = "update_participant_score" ->
                c.participant_id \notin DOMAIN d.session_participant

\* The repository returned no row, the handler raised 404, nothing was
\* written.
ReportedNotFound(r) ==
    /\ ret[r] = None /\ herr[r] = "HTTP404"
    /\ wrote[r] = NoTx /\ applied[r] = NoTx

\* A statement that storage failed raised its error out of the handler.
StorageErrorIsRaised(r) ==
    CalledAt(r, "db.py", FALSE)
        => herr[r] \in {"StorageError:execute", "IntegrityError"}

\* C11 as claimed: every get, PUT and PATCH addressed to a row that does
\* not exist returns no row, reports 404 and writes nothing; a storage error
\* is raised, never reported as an absent row.
C11_AbsentTargetAsClaimed ==
    \A r \in Requests :
        call[r].kind \in NotFoundKinds =>
            /\ (Ran(r) /\ TargetAbsent(r)) => ReportedNotFound(r)
            /\ StorageErrorIsRaised(r)

\* C11 amended: the same, for a PATCH that supplies at least one field.
C11_AbsentTargetIsNotFound ==
    \A r \in Requests :
        call[r].kind \in NotFoundKinds =>
            /\ (Ran(r) /\ TargetAbsent(r) /\ ~ZeroFieldPatch(call[r]))
                  => ReportedNotFound(r)
            /\ StorageErrorIsRaised(r)

\* A PUT to question 2, which does not exist, has ended with 404 after the
\* wrapper rolled back.
C11_Witness ==
    \E r \in Requests :
        /\ call[r].kind = "update_question" /\ pc[r] = "done"
        /\ err[r] = "HTTP404" /\ ReportedNotFound(r)
        /\ CalledAt(r, "app.py:26", TRUE)

-----------------------------------------------------------------------------
(* Properties of the listings *)

\* The repository call of r has returned to its handler, which raised
\* nothing.
Returned(r) == Connected(r) /\ pc[r] # "handler" /\ herr[r] = "none"

\* The elements of a sequence.
Range(q) == {q[i] : i \in DOMAIN q}

\* A row with sort order so1 and id id1 stands before one with so2 and id2:
\* sort_order ascending, null last, ties by id ascending.
Precedes(so1, id1, so2, id2) ==
    IF so1 = None THEN so2 = None /\ id1 < id2
    ELSE IF so2 = None THEN TRUE
    ELSE so1[1] < so2[1] \/ (so1[1] = so2[1] /\ id1 < id2)

\* C12: questions_list_for_quiz returns exactly the questions of the quiz,
\* answers_list_for_question exactly the answers of the question, each row
\* once, ordered by sort_order ascending with null last, ties by id.
C12_ChildrenListedInSortOrder ==
    \A r \in Requests :
        Returned(r) =>
            LET q == ret[r]
            IN  /\ call[r].kind = "get_questions" =>
                    /\ Range(q) =
                          {x \in Range(seen[r].quiz_question) :
                              x.quiz_id = call[r].quiz_id}
                    /\ \A i, j \in DOMAIN q :
                          i < j => Precedes(q[i].sort_order, q[i].question_id,
                                            q[j].sort_order, q[j].question_id)
                /\ call[r].kind = "get_answers" =>
                    /\ Range(q) =
                          {x \in Range(seen[r].quiz_answer) :
                              x.question_id = call[r].question_id}
                    /\ \A i, j \in DOMAIN q :
                          i < j => Precedes(q[i].sort_order, q[i].answer_id,
                                            q[j].sort_order, q[j].answer_id)

\* The questions of quiz 1 were listed as 3, 2, 1: question 1 has no sort
\* order, questions 2 and 3 share one.
C12_Witness ==
    \E r \in Requests :
        /\ Returned(r) /\ call[r] = [kind |-> "get_questions", quiz_id |-> 1]
        /\ Len(ret[r]) = 3
        /\ ret[r][1].question_id = 2 /\ ret[r][2].question_id = 3
        /\ ret[r][1].sort_order = ret[r][2].sort_order
        /\ ret[r][3].sort_order = None

\* The rows a listing must return from the database d, and the primary
\* key of a listed row.
Listed(c, d) ==
    CASE c.kind = "get_users" ->
            {UserProjection(x) :
                x \in {y \in Range(d.users) :
                         c.active # None => y.is_active = c.active[1]}}
      [] c.kind = "get_roles" -> Range(d.role)
      [] c.kind = "permissions_list" -> Range(d.permission)
      [] c.kind = "get_quizzes" ->
            {x \in Range(d.quiz) :
                c.creator_id # None => x.creator_id = c.creator_id}
      [] c.kind = "sessions_list" ->
            {x \in Range(d.game_session) :
                c.quiz_id # None => x.quiz_id = c.quiz_id[1]}

ListedKey(c, row) ==
    CASE c.kind = "get_users" -> row.user_id
      [] c.kind = "get_roles" -> row.role_id
      [] c.kind = "permissions_list" -> row.permission_id
      [] c.kind = "get_quizzes" -> row.quiz_id
      [] c.kind = "sessions_list" -> row.session_id

ListKinds == {"get_users", "get_roles", "permissions_list", "get_quizzes",
              "sessions_list"}

\* C13: every listing returns exactly the rows that match its filter (all
\* rows without one; a filter of false or 0 is a filter), in descending
\* order of the primary key.
C13_ListingsFilteredAndDescending ==
    \A r \in Requests :
        (Returned(r) /\ call[r].kind \in ListKinds) =>
            LET q == ret[r]
            IN  /\ Range(q) = Listed(call[r], seen[r])
                /\ \A i, j \in DOMAIN q :
                      i < j => ListedKey(call[r], q[i])
                                   > ListedKey(call[r], q[j])

-----------------------------------------------------------------------------
(* Properties of create followed by get *)

AllCreateKinds == BadRequestKinds \cup {"permissions_create"}

\* The create of r returned a row.
Created(r) ==
    call[r].kind \in AllCreateKinds /\ Returned(r) /\ ret[r] # None

\* The fields of a payload.
InputFields(c) == DOMAIN c \ {"kind"}

CreatedTable(c) ==
    CASE c.kind = "create_user" -> "users"
      [] c.kind = "create_role" -> "role"
      [] c.kind = "permissions_create" -> "permission"
      [] c.kind = "create_quiz" -> "quiz"
      [] c.kind = "create_question" -> "quiz_question"
      [] c.kind = "create_answer" -> "quiz_answer"
      [] c.kind = "start_session" -> "game_session"
      [] c.kind = "join_session" -> "session_participant"
      [] c.kind = "submit_answer" -> "participant_answer"

\* The row the create of r wrote, under the serial primary key it was given.
CreatedId(r) ==
    CHOOSE i \in DOMAIN wrote[r].puts[CreatedTable(call[r])] : TRUE

\* What a get by id returns from d for the entity that c creates; the
\* participant and the participant answer have no get by id, their stored
\* row stands for it.
GetCreated(c, d, id) ==
    CASE c.kind = "create_user" -> users_get(d, id).ret
      [] c.kind = "create_role" -> roles_get(d, id).ret
      [] c.kind = "permissions_create" -> permissions_get(d, id).ret
      [] c.kind = "create_quiz" -> quizzes_get(d, id).ret
      [] c.kind = "create_question" -> questions_get(d, id).ret
      [] c.kind = "create_answer" -> answers_get(d, id).ret
      [] c.kind = "start_session" -> sessions_get(d, id).ret
      [] OTHER -> FetchedOne(d, CreatedTable(c), id).ret

\* Once committed, a get by the returned id returns the returned entity.
GetReturnsCreated(r) ==
    applied[r] # NoTx => GetCreated(call[r], db, CreatedId(r)) = ret[r]

\* C14 as claimed: the entity a create returns carries every input field
\* with the input value, and a get by the returned id returns the same.
C14_CreateRoundTripAsClaimed ==
    \A r \in Requests :
        Created(r) =>
            /\ \A f \in InputFields(call[r]) :
                  f \in DOMAIN ret[r][1] /\ ret[r][1][f] = call[r][f]
            /\ GetReturnsCreated(r)

\* C14 amended: the same for every input field but the user's
\* password_hash, which is stored with the input value and is in no
\* returned entity.
C14_CreateRoundTrip ==
    \A r \in Requests :
        Created(r) =>
            /\ \A f \in InputFields(call[r]) :
                  IF call[r].kind = "create_user" /\ f = "password_hash"
                  THEN /\ f \notin DOMAIN ret[r][1]
                       /\ wrote[r].puts.users[CreatedId(r)][f] = call[r][f]
                  ELSE f \in DOMAIN ret[r][1] /\ ret[r][1][f] = call[r][f]
            /\ GetReturnsCreated(r)

\* User "cy" was created as user 3, and GET /users/3 then returned what the
\* create had returned.
C14_Witness ==
    \E r1, r2 \in Requests :
        /\ call[r1].kind = "create_user" /\ Created(r1) /\ Succeeded(r1)
        /\ call[r2].kind = "get_user" /\ Succeeded(r2)
        /\ ret[r2] = ret[r1] /\ ret[r1][1].user_id = 3
        /\ ret[r1][1].language = "en"

-----------------------------------------------------------------------------
(* Properties of joining a session *)

\* The join of r returned a participant.
Joined(r) == call[r].kind = "join_session" /\ Created(r)

\* C15: every successful join writes one new participant row and nothing
\* else; the row has a participant_id that no stored row and no other join
\* has, and score 0; once committed it is stored as returned, and the
\* participants that were there are as they were.
C15_JoinAddsOneParticipant ==
    /\ \A r \in Requests :
          Joined(r) =>
              LET row == ret[r][1]
                  id == row.participant_id
              IN  /\ row.score = 0
                  /\ row.session_id = call[r].session_id
                  /\ row.user_id = call[r].user_id
                  /\ row.nickname = call[r].nickname
                  /\ id \notin DOMAIN seen[r].session_participant
                  /\ wrote[r] = Put("session_participant", id, row)
                  /\ applied[r] # NoTx =>
                        /\ id \in DOMAIN db.session_participant
                        /\ db.session_participant[id] = row
    /\ \A r1, r2 \in Requests :
          (r1 # r2 /\ Joined(r1) /\ Joined(r2))
              => ret[r1][1].participant_id # ret[r2][1].participant_id
    /\ \A i \in DOMAIN Db0.session_participant :
          /\ i \in DOMAIN db.session_participant
          /\ db.session_participant[i] = Db0.session_participant[i]

\* Every request joined session 1 as "zed" with no user, as participant 1
\* had: each got a row of its own with score 0, and all are stored.
C15_Witness ==
    /\ \A r \in Requests :
          /\ Joined(r) /\ Succeeded(r)
          /\ call[r].nickname = "zed" /\ call[r].user_id = None
          /\ ret[r][1].score = 0
    /\ Cardinality(DOMAIN db.session_participant) = NumRequests + 1
    /\ \A i \in DOMAIN db.session_participant :
          db.session_participant[i].nickname = "zed"

-----------------------------------------------------------------------------
(* Properties of score updates *)

\* The score update of r found its participant.
Scored(r) ==
    /\ call[r].kind = "update_participant_score"
    /\ Returned(r) /\ ret[r] # None

\* The write of a score update is the row it found with the supplied score.
ScoreOverwritten(r) ==
    LET id == call[r].participant_id
        old == seen[r].session_participant[id]
    IN  /\ ret[r][1] = [old EXCEPT !.score = call[r].score]
        /\ wrote[r] = Put("session_participant", id, ret[r][1])

\* The step is the successful commit of r's score update.
ScoreCommitted(r) ==
    Scored(r) /\ pc[r] = "commit" /\ pc'[r] = "finally"

\* A step changes the database only as the commit of a score update does:
\* the participant's committed score becomes the supplied value, all else
\* stays.
ScoreStep ==
    /\ \A r \in Requests :
          ScoreCommitted(r) =>
              db' = [db EXCEPT
                       !.session_participant[call[r].participant_id].score =
                           call[r].score]
    /\ (db' # db) => (\E r \in Requests : ScoreCommitted(r))

\* C16: a score update writes the row it found with the supplied score in
\* place of the old one, and nothing else; each commit of a score update
\* makes the committed score the value that update supplied and leaves
\* every other row as it was, and no other step changes the database: the
\* final score is that of the update that committed last.
C16_LastCommittedScoreWins ==
    /\ [](\A r \in Requests : Scored(r) => ScoreOverwritten(r))
    /\ [][ScoreStep]_vars

\* Two updates of participant 1 have committed: the one with score 7 came
\* second and committed first, the one with score 5 committed last, and 5
\* is the score; participant 2 has its score of 4.
C16_Witness ==
    \E r1, r2 \in Requests :
        /\ r1 < r2 /\ Scored(r1) /\ Scored(r2)
        /\ Succeeded(r1) /\ Succeeded(r2)
        /\ call[r1].score = 5 /\ call[r2].score = 7
        /\ call[r1].participant_id = 1 /\ call[r2].participant_id = 1
        /\ seen[r1].session_participant[1].score = 7
        /\ db.session_participant[1].score = 5
        /\ db.session_participant[2].score = 4


-----------------------------------------------------------------------------
(* Properties of patches of nullable columns *)

\* r's statement, a sessions_patch, updated a row.
PatchedSession(r) ==
    /\ call[r].kind = "sessions_patch"
    /\ Returned(r) /\ ret[r] # None

NullableColumns == {"ended_at", "current_question_index"}

\* The row a sessions_patch wrote has, in each nullable column, the argument
\* when there is one and the value it found when the argument is null.
NullArgumentKeepsValue(r) ==
    LET id == call[r].session_id
        old == seen[r].game_session[id]
        new == Apply(seen[r], wrote[r]).game_session[id]
    IN  /\ \A f \in NullableColumns :
              new[f] = IF call[r][f] = None THEN old[f] ELSE call[r][f]
        /\ ret[r][1] = new

\* A step leaves non-null every nullable column of a committed session that
\* holds a value.
StaysNonNull ==
    \A i \in DOMAIN db.game_session :
        /\ i \in DOMAIN db'.game_session
        /\ \A f \in NullableColumns :
              db.game_session[i][f] # None => db'.game_session[i][f] # None

\* C17: a sessions_patch writes to ended_at and current_question_index the
\* argument when it is non-null and leaves the stored value untouched when
\* the argument is null; no step of any patch turns a non-null value of
\* either column into null.
C17_PatchNeverNulls ==
    /\ [](\A r \in Requests : PatchedSession(r) => NullArgumentKeepsValue(r))
    /\ [][StaysNonNull]_vars

\* Session 1 was given an index and an end by one patch; a later patch with
\* a null end and another index has succeeded, and the end is still there.
C17_Witness ==
    \E r1, r2 \in Requests :
        /\ r1 < r2 /\ Succeeded(r1) /\ Succeeded(r2)
        /\ PatchedSession(r1) /\ PatchedSession(r2)
        /\ call[r1].session_id = 1 /\ call[r2].session_id = 1
        /\ call[r1].ended_at = Some(5)
        /\ call[r1].current_question_index = Some(3)
        /\ call[r2].ended_at = None
        /\ call[r2].current_question_index = Some(0)
        /\ db.game_session[1].ended_at = Some(5)
        /\ db.game_session[1].current_question_index = Some(0)


-----------------------------------------------------------------------------
(* Properties of patches that supply false and 0 *)

\* The patch fields of a call and the table and row it addresses.
PatchFields(c) ==
    IF c.kind = "patch_user" THEN {"is_active", "is_verified", "language"}
    ELSE {"current_question_index", "ended_at"}

PatchTable(c) == IF c.kind = "patch_user" THEN "users" ELSE "game_session"

PatchId(c) == IF c.kind = "patch_user" THEN c.user_id ELSE c.session_id

\* The call supplies false to is_active or is_verified, or 0 to
\* current_question_index.
SuppliesFalsy(c) ==
    \/ /\ c.kind = "patch_user"
       /\ (c.is_active = Some(FALSE) \/ c.is_verified = Some(FALSE))
    \/ /\ c.kind = "sessions_patch"
       /\ c.current_question_index = Some(0)

\* r's statement reached storage.
Executed(r) == \E i \in DOMAIN log[r] : log[r][i][2] = "execute"

\* The row r's patch wrote holds every non-null argument: a users column
\* holds the value, a nullable game_session column holds Some of it.
WroteSupplied(r) ==
    LET c == call[r]
        new == Apply(seen[r], wrote[r])[PatchTable(c)][PatchId(c)]
    IN  \A f \in PatchFields(c) :
            c[f] # None =>
                IF c.kind = "patch_user" THEN new[f] = c[f][1]
                ELSE new[f] = c[f]

\* C19: a patch whose only supplied values are false or 0 is not a
\* zero-field patch: its statement reaches storage, no ValueError is raised,
\* and the row it updates holds false, or 0, in the supplied column, durably
\* once the request has succeeded; a patch whose arguments are all null
\* raises ValueError before any statement.
C19_SuppliedMeansNonNull ==
    \A r \in Requests :
        (Connected(r) /\ pc[r] # "handler"
         /\ call[r].kind \in {"patch_user", "sessions_patch"})
            => /\ SuppliesFalsy(call[r])
                    => /\ Executed(r) /\ herr[r] # "ValueError"
                       /\ (Returned(r) /\ ret[r] # None)
                            => /\ WroteSupplied(r)
                               /\ Succeeded(r) => applied[r] = wrote[r]
               /\ ZeroFieldPatch(call[r])
                    => ~Executed(r) /\ herr[r] = "ValueError"

\* Every request was a patch of false or 0 and has succeeded: a user is no
\* longer active, or no longer verified, and session 2 is back at index 0.
C19_Witness ==
    /\ \A r \in Requests :
          Succeeded(r) /\ SuppliesFalsy(call[r]) /\ ret[r] # None
    /\ \E r \in Requests : call[r].kind = "sessions_patch"
    /\ \E r \in Requests : call[r].kind = "patch_user"
    /\ \E r \in Requests :
          \/ /\ call[r].kind = "patch_user" /\ call[r].user_id = 1
             /\ ~db.users[1].is_active
          \/ /\ call[r].kind = "patch_user" /\ call[r].user_id = 2
             /\ ~db.users[2].is_verified
    /\ \E r \in Requests :
          /\ call[r].kind = "sessions_patch" /\ call[r].session_id = 2
          /\ db.game_session[2].current_question_index = Some(0)


-----------------------------------------------------------------------------
(* Properties of the connections of concurrent requests *)

\* The step is one of request r: r's call on get_connection() or a call on
\* the connection it returned.
StepOf(r) == pc'[r] # pc[r]

\* The connection, the uncommitted work, the locks and the record of calls
\* of request o are what they were.
Untouched(o) ==
    /\ open'[o] = open[o]
    /\ tx'[o] = tx[o]
    /\ locks'[o] = locks[o]
    /\ applied'[o] = applied[o]
    /\ log'[o] = log[o]
    /\ err'[o] = err[o]

\* A step of a request leaves every other request untouched, and what it
\* makes durable is the work of its own connection or nothing.
OwnConnectionStep ==
    \A r \in Requests :
        StepOf(r) =>
            /\ \A o \in Requests \ {r} : Untouched(o)
            /\ db' \in {db, Apply(db, tx[r])}

\* C18: every call on a connection is made by the request that acquired it:
\* the commit, rollback or close of one request leaves the connection of
\* every other request open, its uncommitted work pending and its locks
\* held, and commits nothing but the request's own work.
C18_ConnectionsAreNotShared ==
    /\ [](\A r \in Requests :
             \A i \in DOMAIN log[r] :
                 log[r][i][2] \in {"commit", "rollback", "close"}
                    => log[r][1] = Called("app.py:21", "connect", TRUE))
    /\ [][OwnConnectionStep]_vars

\* One request has rolled back and closed its connection; another, which
\* arrived before it, still holds uncommitted work on its open connection.
C18_Witness ==
    \E r1, r2 \in Requests :
        /\ r1 < r2
        /\ pc[r1] = "commit" /\ open[r1] /\ Wrote(tx[r1])
        /\ pc[r2] = "done" /\ ~open[r2]
        /\ CalledAt(r2, "app.py:26", TRUE) /\ CalledAt(r2, "app.py:29", TRUE)


-----------------------------------------------------------------------------
(* Properties of the GET endpoints *)

ReadKinds == {"get_users", "get_user", "get_roles", "get_quizzes",
              "get_quiz", "get_questions", "get_answers",
              "get_session_by_code"}

\* A request to a GET endpoint has nothing to commit and has committed
\* nothing; the wrapper has committed when the request succeeded and has
\* called rollback when the handler raised 404.
ReadWritesNothing(r) ==
    /\ tx[r] = NoTx /\ wrote[r] = NoTx /\ applied[r] = NoTx
    /\ Succeeded(r) => CalledAt(r, "app.py:24", TRUE)
    /\ (pc[r] = "done" /\ herr[r] = "HTTP404")
          => \E i \in DOMAIN log[r] : log[r][i][2] = "rollback"

\* A step of a request to a GET endpoint leaves the database and its serials
\* as they were.
ReadStep ==
    \A r \in Requests :
        (StepOf(r) /\ call'[r].kind \in ReadKinds)
            => db' = db /\ seq' = seq

\* C20: a request to a GET endpoint writes nothing: no step of it, the
\* commit after a successful read and the rollback after a 404 included,
\* changes the database.
C20_ReadsLeaveDatabaseUnchanged ==
    /\ [](\A r \in Requests :
             call[r].kind \in ReadKinds => ReadWritesNothing(r))
    /\ [][ReadStep]_vars

\* A read that found its row has succeeded after the wrapper's commit and a
\* read of a missing row has ended in 404 after the wrapper's rollback; the
\* database is the initial one.
C20_Witness ==
    \E r1, r2 \in Requests :
        /\ call[r1].kind \in ReadKinds /\ call[r2].kind \in ReadKinds
        /\ Succeeded(r1) /\ ret[r1] # None
        /\ CalledAt(r1, "app.py:24", TRUE)
        /\ pc[r2] = "done" /\ herr[r2] = "HTTP404"
        /\ CalledAt(r2, "app.py:26", TRUE)
        /\ db = Db0

====
